---- MODULE Spec2Model ----
(***************************************************************************)
(* Model of src/app.py: the fundamentals dashboard.  One press of the      *)
(* "Fetch Fundamentals" button runs the script body top to bottom: the     *)
(* overview section, then one loop iteration per statement section.        *)
(*                                                                         *)
(* Cells.  A table cell is a record [t, n, s]:                             *)
(*   null    Python None                                                   *)
(*   nan     float NaN                                                     *)
(*   str     a string that is not a decimal number (s is the text)         *)
(*   numstr  a JSON string holding the decimal integer n ("1500")          *)
(*   num     a JSON number n                                               *)
(*   fmt     the string f"{x:.2f}" + s where x = n/100 and s is the suffix *)
(* Numbers are integers of magnitude at most 2*10^9 (TLC's integers are    *)
(* 32 bit); every scaled value is kept in hundredths, which is what two    *)
(* decimal places keep of it.                                              *)
(***************************************************************************)
EXTENDS Integers, Sequences, FiniteSets, TLC

VARIABLES pc, sec, resp, df, shown, trend, out, fetched

vars == <<pc, sec, resp, df, shown, trend, out, fetched>>

---------------------------------------------------------------------------
(* Bounds of the model.                                                    *)

MaxReports == 2

---------------------------------------------------------------------------
(* Static tables, lines 11-88.                                             *)

Sections == <<"Balance Sheet", "Cash Flow", "Income Statement">>

FUNCTIONS(section) ==
    CASE section = "Balance Sheet" -> "BALANCE_SHEET"
      [] section = "Cash Flow" -> "CASH_FLOW"
      [] section = "Income Statement" -> "INCOME_STATEMENT"

KEY_FIELDS(fn) ==
    CASE fn = "BALANCE_SHEET" ->
           <<"fiscalDateEnding", "totalAssets", "totalLiabilities",
             "totalShareholderEquity", "currentAssets", "currentLiabilities",
             "cashAndCashEquivalentsAtCarryingValue", "shortTermDebt",
             "longTermDebt", "retainedEarnings">>
      [] fn = "CASH_FLOW" ->
           <<"fiscalDateEnding", "operatingCashflow", "capitalExpenditures",
             "netIncome", "depreciationDepletionAndAmortization",
             "dividendPayoutCommonStock", "cashflowFromInvestment",
             "cashflowFromFinancing">>
      [] fn = "INCOME_STATEMENT" ->
           <<"fiscalDateEnding", "totalRevenue", "grossProfit",
             "operatingIncome", "netIncome", "ebit", "ebitda",
             "costOfRevenue", "sellingGeneralAndAdministrative",
             "researchAndDevelopment", "incomeTaxExpense", "interestExpense",
             "interestIncome", "depreciationAndAmortization">>

(* PRETTY_LABELS with "ebitda" given the label of "ebit".                  *)
PRETTY_LABELS_collide ==
    ("fiscalDateEnding" :> "Fiscal Date") @@
    ("totalAssets" :> "Total Assets") @@
    ("totalLiabilities" :> "Total Liabilities") @@
    ("totalShareholderEquity" :> "Total Shareholder Equity") @@
    ("currentAssets" :> "Current Assets") @@
    ("currentLiabilities" :> "Current Liabilities") @@
    ("cashAndCashEquivalentsAtCarryingValue" :> "Cash Equivalents at Carrying Value") @@
    ("shortTermDebt" :> "Short-Term Debt") @@
    ("longTermDebt" :> "Long-Term Debt") @@
    ("retainedEarnings" :> "Retained Earnings") @@
    ("operatingCashflow" :> "Operating Cash Flow") @@
    ("capitalExpenditures" :> "Capital Expenditures") @@
    ("netIncome" :> "Net Income") @@
    ("depreciationDepletionAndAmortization" :> "Amortization") @@
    ("dividendPayoutCommonStock" :> "Dividend Payout (Common Stock)") @@
    ("cashflowFromInvestment" :> "Cash Flow from Investment") @@
    ("cashflowFromFinancing" :> "Cash Flow from Financing") @@
    ("totalRevenue" :> "Total Revenue") @@
    ("grossProfit" :> "Gross Profit") @@
    ("operatingIncome" :> "Operating Income") @@
    ("ebit" :> "EBIT") @@
    ("ebitda" :> "EBIT") @@
    ("costOfRevenue" :> "Cost of Revenue") @@
    ("sellingGeneralAndAdministrative" :> "SG&A") @@
    ("researchAndDevelopment" :> "R&D") @@
    ("incomeTaxExpense" :> "Income Tax Expense") @@
    ("interestExpense" :> "Interest Expense") @@
    ("interestIncome" :> "Interest Income")

PRETTY_LABELS ==
    ("fiscalDateEnding" :> "Fiscal Date") @@
    ("totalAssets" :> "Total Assets") @@
    ("totalLiabilities" :> "Total Liabilities") @@
    ("totalShareholderEquity" :> "Total Shareholder Equity") @@
    ("currentAssets" :> "Current Assets") @@
    ("currentLiabilities" :> "Current Liabilities") @@
    ("cashAndCashEquivalentsAtCarryingValue" :> "Cash Equivalents at Carrying Value") @@
    ("shortTermDebt" :> "Short-Term Debt") @@
    ("longTermDebt" :> "Long-Term Debt") @@
    ("retainedEarnings" :> "Retained Earnings") @@
    ("operatingCashflow" :> "Operating Cash Flow") @@
    ("capitalExpenditures" :> "Capital Expenditures") @@
    ("netIncome" :> "Net Income") @@
    ("depreciationDepletionAndAmortization" :> "Amortization") @@
    ("dividendPayoutCommonStock" :> "Dividend Payout (Common Stock)") @@
    ("cashflowFromInvestment" :> "Cash Flow from Investment") @@
    ("cashflowFromFinancing" :> "Cash Flow from Financing") @@
    ("totalRevenue" :> "Total Revenue") @@
    ("grossProfit" :> "Gross Profit") @@
    ("operatingIncome" :> "Operating Income") @@
    ("ebit" :> "EBIT") @@
    ("ebitda" :> "EBITDA") @@
    ("costOfRevenue" :> "Cost of Revenue") @@
    ("sellingGeneralAndAdministrative" :> "SG&A") @@
    ("researchAndDevelopment" :> "R&D") @@
    ("incomeTaxExpense" :> "Income Tax Expense") @@
    ("interestExpense" :> "Interest Expense") @@
    ("interestIncome" :> "Interest Income")

(* OVERVIEW_FIELDS as a sequence of <<provider key, label>>, in dict order. *)
OVERVIEW_FIELDS ==
    << <<"Name", "Company Name">>, <<"Exchange", "Exchange">>,
       <<"Sector", "Sector">>, <<"Industry", "Industry">>,
       <<"MarketCapitalization", "Market Cap">>, <<"PERatio", "P/E Ratio">>,
       <<"PEGRatio", "PEG Ratio">>, <<"DividendPerShare", "Dividend/Share">>,
       <<"DividendYield", "Dividend Yield">>, <<"EPS", "EPS">>,
       <<"RevenuePerShareTTM", "Revenue/Share">>,
       <<"ProfitMargin", "Profit Margin">>, <<"ReturnOnEquityTTM", "ROE">>,
       <<"SharesOutstanding", "Shares Outstanding">>, <<"Beta", "Beta">>,
       <<"52WeekHigh", "52-Week High">>, <<"52WeekLow", "52-Week Low">>,
       <<"EVToEBITDA", "EV/EBITDA">>, <<"PriceToBookRatio", "Price/Book">>,
       <<"PriceToSalesRatioTTM", "Price/Sales">> >>

---------------------------------------------------------------------------
(* Cells.                                                                  *)

Null == [t |-> "null", n |-> 0, s |-> ""]
NaN == [t |-> "nan", n |-> 0, s |-> ""]
Str(text) == [t |-> "str", n |-> 0, s |-> text]
NumStr(v) == [t |-> "numstr", n |-> v, s |-> ""]
Num(v) == [t |-> "num", n |-> v, s |-> ""]
Fmt(h, suffix) == [t |-> "fmt", n |-> h, s |-> suffix]

Abs(x) == IF x < 0 THEN -x ELSE x

RECURSIVE Gcd(_, _)
Gcd(a, b) == IF b = 0 THEN a ELSE Gcd(b, a % b)

Range(f) == {f[i] : i \in DOMAIN f}

---------------------------------------------------------------------------
(* format_large_numbers, lines 91-105.                                     *)

Thousand == 1000
Million == 1000000
Billion == 1000000000

(* float(val), line 94: [ok, nan, n, d] with value n/d, d = 1 or 100.      *)
(* None raises TypeError; a string parses when it is a decimal number or   *)
(* "nan"; a formatted string parses only when it carries no suffix.        *)
FloatOf(val) ==
    CASE val.t = "null" -> [ok |-> FALSE, nan |-> FALSE, n |-> 0, d |-> 1]
      [] val.t = "nan" -> [ok |-> TRUE, nan |-> TRUE, n |-> 0, d |-> 1]
      [] val.t = "str" -> [ok |-> val.s = "nan", nan |-> val.s = "nan", n |-> 0, d |-> 1]
      [] val.t = "numstr" -> [ok |-> TRUE, nan |-> FALSE, n |-> val.n, d |-> 1]
      [] val.t = "num" -> [ok |-> TRUE, nan |-> FALSE, n |-> val.n, d |-> 1]
      [] val.t = "fmt" -> [ok |-> val.s = "", nan |-> FALSE, n |-> val.n, d |-> 100]

(* n / m rounded to the nearest integer (m > 0 even). The decimal ties of  *)
(* f"{x:.2f}" are decided by the binary expansion of the double x; here    *)
(* they round away from zero.                                              *)
RoundDiv(n, m) ==
    IF n < 0 THEN -((Abs(n) + m \div 2) \div m) ELSE (n + m \div 2) \div m

(* f"{val / unit:.2f}" in hundredths, val = n/d.                           *)
Scaled(n, d, unit) ==
    IF unit = 1
    THEN n * (100 \div d)
    ELSE RoundDiv(n, unit \div (100 \div d))

(* abs(val) >= limit for val = n/d and an integer limit.                   *)
AbsAtLeast(n, d, limit) == Abs(n) \div d >= limit

(* _format comparing val, not abs(val), with the thresholds.               *)
_format_signed(val) ==
    LET f == FloatOf(val) IN
    IF ~f.ok THEN val
    ELSE IF f.nan THEN Str("nan")
    ELSE IF f.n >= 0 /\ AbsAtLeast(f.n, f.d, Billion) THEN Fmt(Scaled(f.n, f.d, Billion), "B")
    ELSE IF f.n >= 0 /\ AbsAtLeast(f.n, f.d, Million) THEN Fmt(Scaled(f.n, f.d, Million), "M")
    ELSE IF f.n >= 0 /\ AbsAtLeast(f.n, f.d, Thousand) THEN Fmt(Scaled(f.n, f.d, Thousand), "K")
    ELSE Fmt(Scaled(f.n, f.d, 1), "")

(* _format, lines 92-104: the bare except returns the cell as it came.     *)
_format(val) ==
    LET f == FloatOf(val) IN
    IF ~f.ok THEN val
    ELSE IF f.nan THEN Str("nan")
    ELSE IF AbsAtLeast(f.n, f.d, Billion) THEN Fmt(Scaled(f.n, f.d, Billion), "B")
    ELSE IF AbsAtLeast(f.n, f.d, Million) THEN Fmt(Scaled(f.n, f.d, Million), "M")
    ELSE IF AbsAtLeast(f.n, f.d, Thousand) THEN Fmt(Scaled(f.n, f.d, Thousand), "K")
    ELSE Fmt(Scaled(f.n, f.d, 1), "")

(* A DataFrame is [cols, rows]: the column names in order and, per row,    *)
(* the cells in column order.                                              *)
EmptyFrame == [cols |-> <<>>, rows |-> <<>>]

(* df.applymap(_format), line 105.                                         *)
format_large_numbers(d) ==
    [cols |-> d.cols,
     rows |-> [i \in DOMAIN d.rows |->
                 [j \in DOMAIN d.rows[i] |-> _format(d.rows[i][j])]]]

(* df.rename(columns=PRETTY_LABELS), lines 107-108: a name that is no key  *)
(* of the mapping is kept.                                                 *)
prettify_columns(d) ==
    [cols |-> [j \in DOMAIN d.cols |->
                 IF d.cols[j] \in DOMAIN PRETTY_LABELS
                 THEN PRETTY_LABELS[d.cols[j]] ELSE d.cols[j]],
     rows |-> d.rows]

---------------------------------------------------------------------------
(* HTTP responses and the fetchers, lines 111-131.                         *)

(* What requests.get gives: kind "error" is a transport failure (it        *)
(* raises); otherwise a status and a body that is not JSON ("invalid"), a  *)
(* JSON array, or a JSON object `data`; for a statement, `has` says        *)
(* whether data holds "annualReports" and `reports` is that list.          *)
NoResponse ==
    [kind |-> "none", status |-> 0, body |-> "", has |-> FALSE,
     reports |-> <<>>, data |-> [k \in {} |-> Null]]

(* The projection with r.get(k, "0").                                      *)
project_default_zero(reports, keys) ==
    [i \in DOMAIN reports |->
       [j \in DOMAIN keys |->
          IF keys[j] \in DOMAIN reports[i] THEN reports[i][keys[j]] ELSE NumStr(0)]]

(* [{k: r.get(k) for k in keys} for r in reports], line 121.               *)
project(reports, keys) ==
    [i \in DOMAIN reports |->
       [j \in DOMAIN keys |->
          IF keys[j] \in DOMAIN reports[i] THEN reports[i][keys[j]] ELSE Null]]

(* pd.DataFrame(list of dicts), line 121.  No record: no row, no column.   *)
(* A column holding only numbers and None is stored as floats, its None    *)
(* as NaN; a column holding any string keeps its objects, None included.   *)
DataFrame(records, keys) ==
    IF Len(records) = 0 THEN EmptyFrame
    ELSE LET numeric(j) ==
                 /\ \A i \in DOMAIN records : records[i][j].t \in {"num", "nan", "null"}
                 /\ \E i \in DOMAIN records : records[i][j].t = "num"
         IN [cols |-> keys,
             rows |-> [i \in DOMAIN records |->
                         [j \in DOMAIN keys |->
                            IF numeric(j) /\ records[i][j].t = "null"
                            THEN NaN ELSE records[i][j]]]]

(* get_fundamentals reading data["annualReports"], which raises KeyError   *)
(* when the key is missing.                                                *)
get_fundamentals_keyerror(r, statement_label) ==
    IF r.kind = "error" \/ r.body # "object" \/ ~r.has
    THEN [raised |-> TRUE, df |-> EmptyFrame]
    ELSE LET keys == KEY_FIELDS(FUNCTIONS(statement_label))
         IN [raised |-> FALSE, df |-> DataFrame(project(r.reports, keys), keys)]

(* get_fundamentals, lines 111-121: [raised, df].  Nothing is caught and   *)
(* the status is not read: requests.get raises on a transport failure,     *)
(* r.json() on a body that is not JSON, data.get on a body that is no      *)
(* object.                                                                 *)
get_fundamentals(r, statement_label) ==
    IF r.kind = "error" \/ r.body # "object"
    THEN [raised |-> TRUE, df |-> EmptyFrame]
    ELSE LET reports == IF r.has THEN r.reports ELSE <<>>
             keys == KEY_FIELDS(FUNCTIONS(statement_label))
         IN [raised |-> FALSE, df |-> DataFrame(project(reports, keys), keys)]

(* get_overview, lines 123-131: [raised, overview]; overview holds one     *)
(* cell per entry of OVERVIEW_FIELDS, data.get(key, None).                 *)
get_overview(r) ==
    IF r.kind = "error" \/ r.body # "object"
    THEN [raised |-> TRUE, overview |-> <<>>]
    ELSE [raised |-> FALSE,
          overview |-> [j \in DOMAIN OVERVIEW_FIELDS |->
                          IF OVERVIEW_FIELDS[j][1] \in DOMAIN r.data
                          THEN r.data[OVERVIEW_FIELDS[j][1]] ELSE Null]]

---------------------------------------------------------------------------
(* plot_trends, lines 134-180.                                             *)

(* The positions of the columns named `name`.                              *)
ColIdx(d, name) == {j \in DOMAIN d.cols : d.cols[j] = name}

(* pd.to_datetime on one cell, line 136: [ok, nat, day].  None is NaT, an  *)
(* ISO date string parses, any other string raises.                        *)
to_datetime(cell) ==
    CASE cell.t \in {"null", "nan"} -> [ok |-> TRUE, nat |-> TRUE, day |-> 0]
      [] cell.t = "str" /\ cell.s = "2021-12-31" -> [ok |-> TRUE, nat |-> FALSE, day |-> 20211231]
      [] cell.t = "str" /\ cell.s = "2022-12-31" -> [ok |-> TRUE, nat |-> FALSE, day |-> 20221231]
      [] cell.t = "str" /\ cell.s = "2023-12-31" -> [ok |-> TRUE, nat |-> FALSE, day |-> 20231231]
      [] OTHER -> [ok |-> FALSE, nat |-> FALSE, day |-> 0]

(* a sorts before b: ascending, NaT last (na_position="last").             *)
DateBefore(a, b) == ~a.nat /\ (b.nat \/ a.day < b.day)

(* df.sort_values(x_col), line 137: order[p] is the row that comes p-th.   *)
(* Rows with equal dates keep their order here; pandas' default quicksort  *)
(* leaves the order of such rows open, and reports of distinct fiscal      *)
(* periods have distinct dates.                                            *)
sort_values(dates) ==
    LET rank(i) == 1 + Cardinality({j \in DOMAIN dates :
                        \/ DateBefore(dates[j], dates[i])
                        \/ (~DateBefore(dates[i], dates[j]) /\ j < i)})
    IN [p \in DOMAIN dates |-> CHOOSE i \in DOMAIN dates : rank(i) = p]

(* .replace('[\$,B,M,K]', '', regex=True) on one cell, line 140: only      *)
(* strings change; the suffix of a formatted number is one of B, M, K.     *)
StripText(text) ==
    CASE text = "IBM" -> "I"
      [] OTHER -> text

Strip(cell) ==
    CASE cell.t = "fmt" -> Fmt(cell.n, "")
      [] cell.t = "str" -> Str(StripText(cell.s))
      [] OTHER -> cell

(* .astype(float) on one cell of an object column, line 140: [ok, nan, h], *)
(* h the value in hundredths.  None becomes NaN; a string that is not a    *)
(* number raises ValueError.                                               *)
AsFloat(cell) ==
    LET f == FloatOf(cell) IN
    IF cell.t = "null" THEN [ok |-> TRUE, nan |-> TRUE, h |-> 0]
    ELSE IF ~f.ok THEN [ok |-> FALSE, nan |-> FALSE, h |-> 0]
    ELSE IF f.nan THEN [ok |-> TRUE, nan |-> TRUE, h |-> 0]
    ELSE [ok |-> TRUE, nan |-> FALSE, h |-> f.n * (100 \div f.d)]

(* A float result as a fraction in lowest terms, or NaN.                   *)
PctNaN == [nan |-> TRUE, num |-> 0, den |-> 1]

Fraction(a, b) ==
    LET g == Gcd(Abs(a), b) IN [nan |-> FALSE, num |-> a \div g, den |-> b \div g]

(* (last - first) / abs(first) * 100 if first not in [0, None] else 0,     *)
(* lines 143-144.  NaN is neither equal to 0 nor None, and any arithmetic  *)
(* on NaN gives NaN.                                                       *)
pct_change(first, last) ==
    IF ~first.nan /\ first.h = 0 THEN Fraction(0, 1)
    ELSE IF first.nan \/ last.nan THEN PctNaN
    ELSE Fraction((last.h - first.h) * 100, Abs(first.h))

(* The try block, lines 136-178: [failed, pct, first, last]; pct, first    *)
(* and last hold one entry per y column, first and last the cleaned cells  *)
(* at iloc[0] and iloc[-1].                                                *)
try_plot(d, x_col, y_cols) ==
    LET none == [failed |-> TRUE, pct |-> <<>>, first |-> <<>>, last |-> <<>>]
        xs == ColIdx(d, x_col)
    IN
    IF Cardinality(xs) # 1 THEN none
    ELSE
    LET x == CHOOSE j \in xs : TRUE
        dates == [i \in DOMAIN d.rows |-> to_datetime(d.rows[i][x])]
    IN
    IF \E i \in DOMAIN dates : ~dates[i].ok THEN none
    ELSE IF \E k \in DOMAIN y_cols : Cardinality(ColIdx(d, y_cols[k])) # 1 THEN none
    ELSE
    LET order == sort_values(dates)
        y(k) == CHOOSE j \in ColIdx(d, y_cols[k]) : TRUE
        clean == [k \in DOMAIN y_cols |->
                    [p \in DOMAIN order |-> AsFloat(Strip(d.rows[order[p]][y(k)]))]]
    IN
    IF \E k \in DOMAIN clean : \E p \in DOMAIN clean[k] : ~clean[k][p].ok THEN none
    ELSE IF Len(d.rows) = 0 THEN none
    ELSE [failed |-> FALSE,
          pct |-> [k \in DOMAIN y_cols |-> pct_change(clean[k][1], clean[k][Len(d.rows)])],
          first |-> [k \in DOMAIN y_cols |-> clean[k][1]],
          last |-> [k \in DOMAIN y_cols |-> clean[k][Len(d.rows)]]]

(* plot_trends without its try/except: a failure leaves the function.      *)
plot_trends_uncaught(d, x_col, y_cols) ==
    LET t == try_plot(d, x_col, y_cols) IN
    [raised |-> t.failed, status |-> IF t.failed THEN "none" ELSE "chart",
     pct |-> t.pct, first |-> t.first, last |-> t.last]

(* plot_trends: `except Exception` (line 179) turns every failure of the   *)
(* try block into st.warning; nothing is raised to the caller.             *)
plot_trends(d, x_col, y_cols) ==
    LET t == try_plot(d, x_col, y_cols) IN
    [raised |-> FALSE, status |-> IF t.failed THEN "warning" ELSE "chart",
     pct |-> t.pct, first |-> t.first, last |-> t.last]

NoTrend == [raised |-> FALSE, status |-> "none", pct |-> <<>>, first |-> <<>>, last |-> <<>>]

(* The chart of each section, lines 213-218.                               *)
ChartColumns(section) ==
    CASE section = "Balance Sheet" -> <<"Total Assets", "Total Liabilities">>
      [] section = "Cash Flow" -> <<"Operating Cash Flow", "Capital Expenditures">>
      [] section = "Income Statement" -> <<"Total Revenue", "Net Income">>

ChartTitle(section) ==
    CASE section = "Balance Sheet" -> "Total Assets vs Liabilities"
      [] section = "Cash Flow" -> "Cash Flow vs CapEx"
      [] section = "Income Statement" -> "Revenue vs Net Income"

---------------------------------------------------------------------------
(* What the provider may answer.                                           *)

StatusCodes == {200, 500}

ReportDates == {"2022-12-31", "2023-12-31"}

Absent == [t |-> "absent", n |-> 0, s |-> ""]

(* The value a report carries for the first charted key of its statement,  *)
(* or Absent when the report lacks the key.                                *)
RawValues ==
    {NumStr(0), NumStr(-500000000), NumStr(1500000000), Num(5), Str("None"), Absent}

(* One raw report: every whitelisted key but possibly the first charted    *)
(* one, and "reportedCurrency", which no whitelist holds.                  *)
Report(section, date, v) ==
    LET keys == KEY_FIELDS(FUNCTIONS(section))
        present == (Range(keys) \ (IF v = Absent THEN {keys[2]} ELSE {}))
                       \cup {"reportedCurrency"}
    IN [k \in present |->
          CASE k = "fiscalDateEnding" -> Str(date)
            [] k = "reportedCurrency" -> Str("USD")
            [] k = keys[2] -> v
            [] k = keys[Len(keys)] -> Str("None")
            [] OTHER -> NumStr(1500)]

Reports(section) == {Report(section, d, v) : d \in ReportDates, v \in RawValues}

SeqsUpTo(S, n) == UNION {[1..m -> S] : m \in 0..n}

EmptyData == [k \in {} |-> Null]

Http(status, body, has, reports, data) ==
    [kind |-> "http", status |-> status, body |-> body, has |-> has,
     reports |-> reports, data |-> data]

TransportError ==
    [kind |-> "error", status |-> 0, body |-> "", has |-> FALSE,
     reports |-> <<>>, data |-> EmptyData]

StatementResponses(section) ==
    {TransportError}
      \cup {Http(st, "invalid", FALSE, <<>>, EmptyData) : st \in StatusCodes}
      \cup {Http(st, "array", FALSE, <<>>, EmptyData) : st \in StatusCodes}
      \cup {Http(st, "object", FALSE, <<>>, EmptyData) : st \in StatusCodes}
      \cup {Http(200, "object", TRUE, rs, EmptyData) : rs \in SeqsUpTo(Reports(section), MaxReports)}
      \cup {Http(500, "object", TRUE, <<Report(section, "2023-12-31", NumStr(1500))>>, EmptyData)}

OverviewData ==
    LET keys == {OVERVIEW_FIELDS[j][1] : j \in DOMAIN OVERVIEW_FIELDS}
        full(cap) == [k \in keys |->
                        CASE k = "Name" -> Str("IBM")
                          [] k = "MarketCapitalization" -> cap
                          [] k = "SharesOutstanding" -> NumStr(900000000)
                          [] k = "Beta" -> Str("None")
                          [] OTHER -> NumStr(5)]
    IN {EmptyData}
         \cup {full(cap) : cap \in {NumStr(2000000000), Num(1500000), Str("None")}}
         \cup {[k \in keys \ {"PERatio"} |-> full(NumStr(0))[k]]}

OverviewResponses ==
    {TransportError}
      \cup {Http(st, "invalid", FALSE, <<>>, EmptyData) : st \in StatusCodes}
      \cup {Http(st, "object", FALSE, <<>>, d) : st \in StatusCodes, d \in OverviewData}

---------------------------------------------------------------------------
(* The script body under `if st.button("Fetch Fundamentals")`, lines       *)
(* 188-218.  pc: "idle" before the press, "loop" at the top of a loop      *)
(* iteration, "rendered" at its end, "done" after the loop, "crashed" when *)
(* an exception left the script (Streamlit stops the run).                 *)

Ui(kind, text, arg) == [kind |-> kind, text |-> text, arg |-> arg]

Init ==
    /\ pc = "idle"
    /\ sec = 0
    /\ resp = NoResponse
    /\ df = EmptyFrame
    /\ shown = EmptyFrame
    /\ trend = NoTrend
    /\ out = <<>>
    /\ fetched = <<>>

(* One request as the network saw it: the function asked for and the      *)
(* status that came back (0 when no response came).                        *)
Request(fn, r) == [fn |-> fn, status |-> r.status]

(* Lines 189-200: the overview section.                                    *)
Overview ==
    /\ pc = "idle"
    /\ \E r \in OverviewResponses :
         LET g == get_overview(r)
             labels == [j \in DOMAIN OVERVIEW_FIELDS |-> OVERVIEW_FIELDS[j][2]]
             overview_df == format_large_numbers(DataFrame(<<g.overview>>, labels))
             head == <<Ui("subheader", "Company Overview", "")>>
         IN /\ resp' = r
            /\ fetched' = Append(fetched, Request("OVERVIEW", r))
            /\ IF g.raised
               THEN /\ pc' = "crashed"
                    /\ out' = head
                    /\ shown' = EmptyFrame
               ELSE /\ pc' = "rendered"
                    /\ IF Len(g.overview) > 0
                       THEN /\ shown' = overview_df
                            /\ out' = head \o [j \in DOMAIN labels |->
                                                 Ui("markdown", labels[j], "")]
                       ELSE /\ shown' = EmptyFrame
                            /\ out' = Append(head, Ui("warning", "No overview data returned.", ""))
    /\ UNCHANGED <<sec, df, trend>>

(* Lines 204-218: one pass through the loop body for Sections[sec].        *)
Section ==
    /\ pc = "loop"
    /\ \E r \in StatementResponses(Sections[sec]) :
         LET section == Sections[sec]
             g == get_fundamentals(r, section)
             table == format_large_numbers(prettify_columns(g.df))
             t == plot_trends(table, "Fiscal Date", ChartColumns(section))
             head == Append(out, Ui("subheader", section, ""))
         IN /\ resp' = r
            /\ fetched' = Append(fetched, Request(FUNCTIONS(section), r))
            /\ IF g.raised
               THEN /\ pc' = "crashed"
                    /\ out' = head
                    /\ df' = EmptyFrame /\ shown' = EmptyFrame /\ trend' = NoTrend
               ELSE IF Len(g.df.rows) = 0
               THEN /\ pc' = "rendered"
                    /\ out' = Append(head, Ui("warning", "No data returned for", section))
                    /\ df' = g.df /\ shown' = EmptyFrame /\ trend' = NoTrend
               ELSE /\ df' = g.df
                    /\ shown' = table
                    /\ trend' = t
                    /\ IF t.raised
                       THEN /\ pc' = "crashed"
                            /\ out' = Append(head, Ui("dataframe", section, ""))
                       ELSE /\ pc' = "rendered"
                            /\ out' = head \o
                                 << Ui("dataframe", section, ""),
                                    IF t.status = "chart"
                                    THEN Ui("plotly_chart", ChartTitle(section), "")
                                    ELSE Ui("warning", "Could not plot:", ChartTitle(section)) >>
    /\ UNCHANGED sec

(* Lines 202-203: the script goes on to the statements and the for        *)
(* statement takes the next section, or ends the script.  sec = 0 is the   *)
(* overview section.  The names r, df and the chart's locals are rebound   *)
(* by the next pass before they are read again.                            *)
NextSection ==
    /\ pc = "rendered"
    /\ IF sec < Len(Sections)
       THEN sec' = sec + 1 /\ pc' = "loop"
       ELSE sec' = sec /\ pc' = "done"
    /\ resp' = NoResponse
    /\ df' = EmptyFrame
    /\ shown' = EmptyFrame
    /\ trend' = NoTrend
    /\ UNCHANGED <<out, fetched>>

Next == Overview \/ Section \/ NextSection

Spec == Init /\ [][Next]_vars

---------------------------------------------------------------------------
(* The normalizer alone: get_fundamentals, prettify_columns and            *)
(* format_large_numbers applied to one Balance Sheet response whose        *)
(* totalAssets values range over both sides of every threshold.            *)

FormatNumbers ==
    {0, 5, -5, 999, -999, 1000, -1000, 1234, 999999, 1000000, -1000000,
     5678900, 999999999, 1000000000, -1000000000, 2000000000, -2000000000}

FormatValues ==
    {NumStr(v) : v \in FormatNumbers} \cup {Num(1000), Num(-1500000), Str("None"), Absent}

FormatResponses ==
    {Http(200, "object", TRUE, rs, EmptyData) :
       rs \in SeqsUpTo({Report("Balance Sheet", "2023-12-31", v) : v \in FormatValues},
                       MaxReports)}

InitFormat ==
    /\ pc = "normalize"
    /\ sec = 1
    /\ resp \in FormatResponses
    /\ df = EmptyFrame
    /\ shown = EmptyFrame
    /\ trend = NoTrend
    /\ out = <<>>
    /\ fetched = <<>>

(* Lines 205, 209 and 210 on the response at hand.                         *)
Normalize ==
    /\ pc = "normalize"
    /\ LET g == get_fundamentals(resp, Sections[sec])
       IN /\ df' = g.df
          /\ shown' = format_large_numbers(prettify_columns(g.df))
    /\ pc' = "normalized"
    /\ UNCHANGED <<sec, resp, trend, out, fetched>>

NextFormat == Normalize

SpecFormat == InitFormat /\ [][NextFormat]_vars

---------------------------------------------------------------------------
(* Vocabulary of the properties.                                           *)

(* A statement section has run its loop body (with or without a crash).    *)
AfterSection == sec >= 1 /\ pc \in {"rendered", "crashed"}

(* The overview section has run.                                           *)
AfterOverview == sec = 0 /\ pc \in {"rendered", "crashed"}

(* The section rendered a table: plot_trends was called on it.             *)
TableRendered == AfterSection /\ Len(df.rows) > 0

Count(q, e) == Cardinality({i \in DOMAIN q : q[i] = e})

NoDataWarning(section) == Ui("warning", "No data returned for", section)
PlotWarning(section) == Ui("warning", "Could not plot:", ChartTitle(section))
Chart(section) == Ui("plotly_chart", ChartTitle(section), "")
Table(section) == Ui("dataframe", section, "")
OverviewWarning == Ui("warning", "No overview data returned.", "")

Requested(fn) == \E i \in DOMAIN fetched : fetched[i].fn = fn

(* The response is a failed fetch: no response at all, a status other than *)
(* 200, or a body that does not parse as JSON.                             *)
FailedFetch(r) ==
    \/ r.kind = "error"
    \/ r.kind = "http" /\ (r.status # 200 \/ r.body = "invalid")

(* C1: a fetch that fails (non-200 status, transport failure, unparsable   *)
(* body) never raises past get_overview / get_fundamentals: the function   *)
(* returns an empty mapping / an empty table and the script does not stop. *)
C1_FailedFetchDegradesToEmpty ==
    (AfterOverview \/ AfterSection) /\ FailedFetch(resp) =>
        /\ pc # "crashed"
        /\ IF sec = 0
           THEN LET g == get_overview(resp) IN ~g.raised /\ Len(g.overview) = 0
           ELSE LET g == get_fundamentals(resp, Sections[sec])
                IN ~g.raised /\ Len(g.df.rows) = 0

(* C2: when the overview fetch got HTTP 500, the overview section shows    *)
(* "No overview data returned." and, once the run has ended, each of the   *)
(* three statement functions has been requested.                           *)
C2_Overview500WarnsAndStatementsFetch ==
    Len(fetched) >= 1 /\ fetched[1].fn = "OVERVIEW" /\ fetched[1].status = 500 =>
        /\ Count(out, OverviewWarning) = 1
        /\ pc \in {"crashed", "done"} =>
             \A i \in DOMAIN Sections : Requested(FUNCTIONS(Sections[i]))

(* The column of the raw table that feeds the k-th charted column.         *)
ChartKey(k) ==
    LET keys == KEY_FIELDS(FUNCTIONS(Sections[sec]))
    IN CHOOSE j \in DOMAIN keys :
         prettify_columns([cols |-> keys, rows |-> <<>>]).cols[j]
             = ChartColumns(Sections[sec])[k]

(* The fiscal dates of the raw table, row by row.                          *)
RawDates == [i \in DOMAIN df.rows |-> to_datetime(df.rows[i][1])]

(* The rows of the earliest and of the latest fiscal period.               *)
Earliest == CHOOSE i \in DOMAIN df.rows : \A j \in DOMAIN df.rows : RawDates[i].day <= RawDates[j].day
Latest == CHOOSE i \in DOMAIN df.rows : \A j \in DOMAIN df.rows : RawDates[i].day >= RawDates[j].day

DistinctDates ==
    \A i, j \in DOMAIN df.rows : i # j => RawDates[i].day # RawDates[j].day

(* The number a displayed cell stands for, read with its suffix: "1.50B"   *)
(* is 1500000000.  (Raw values are integers, so an unscaled cell is exact.) *)
Denoted(cell) ==
    CASE cell.s = "B" -> cell.n * (Billion \div 100)
      [] cell.s = "M" -> cell.n * (Million \div 100)
      [] cell.s = "K" -> cell.n * (Thousand \div 100)
      [] OTHER -> cell.n \div 100

(* C3: when a chart is drawn from numeric raw values whose first value in  *)
(* time is not zero, the percent change of a charted column is             *)
(* (last - first) / abs(first) * 100 on the values of the earliest and the *)
(* latest fiscal period, up to the two decimals the table keeps of each,   *)
(* whatever their magnitudes and the order of the rows in the response.    *)
C3_PercentChangeOfRawValues ==
    TableRendered /\ trend.status = "chart" /\ DistinctDates =>
        \A k \in DOMAIN trend.pct :
            LET j == ChartKey(k)
                numeric == \A i \in DOMAIN df.rows : df.rows[i][j].t \in {"numstr", "num"}
                f == Denoted(shown.rows[Earliest][j])
                l == Denoted(shown.rows[Latest][j])
            IN numeric /\ df.rows[Earliest][j].n # 0 =>
                 /\ ~trend.pct[k].nan
                 /\ Fraction(trend.pct[k].num, trend.pct[k].den * 100)
                      = Fraction(l - f, Abs(f))

(* C4: in a chart, a column whose first value in time is zero or absent    *)
(* has percent change exactly 0; no NaN is produced.                       *)
C4_ZeroOrAbsentFirstGivesZero ==
    TableRendered /\ trend.status = "chart" =>
        \A k \in DOMAIN trend.pct :
            LET j == ChartKey(k)
                first == df.rows[sort_values(RawDates)[1]][j]
            IN (first.t \in {"null", "nan"} \/ (first.t \in {"numstr", "num"} /\ first.n = 0))
                 => trend.pct[k] = Fraction(0, 1)

(* A charted cell of the displayed table is still not a number once the    *)
(* suffix characters are stripped.                                         *)
NonNumericChartCell ==
    \E k \in DOMAIN ChartColumns(Sections[sec]) : \E i \in DOMAIN shown.rows :
        LET c == shown.rows[i][ChartKey(k)] IN c.t = "str" /\ c.s # "nan"

(* plot_trends on table d ends in a warning, with nothing raised.          *)
WarnsOnly(d, x_col, y_cols) ==
    LET t == plot_trends(d, x_col, y_cols) IN ~t.raised /\ t.status = "warning"

(* C6: a failure inside the chart derivation never leaves plot_trends:     *)
(* the section that rendered its table ends without a crash, with one      *)
(* "Could not plot" warning and no chart when the derivation failed (as it *)
(* does on a cell that is no number), and every later section of the run   *)
(* has been requested.  Asked for a date column or a value column that the *)
(* table lacks, or for a date column whose cells are no dates, plot_trends *)
(* likewise ends in a warning.                                             *)
C6_ChartFailureStaysLocal ==
    /\ TableRendered =>
         /\ pc = "rendered"
         /\ WarnsOnly(shown, "fiscalDateEnding", ChartColumns(Sections[sec]))
         /\ WarnsOnly(shown, "Fiscal Date", <<"Total Assets", "Net Income">>)
         /\ WarnsOnly(shown, shown.cols[3], ChartColumns(Sections[sec]))
         /\ NonNumericChartCell => trend.status = "warning"
         /\ trend.status = "warning" =>
              /\ Count(out, PlotWarning(Sections[sec])) = 1
              /\ Count(out, Chart(Sections[sec])) = 0
              /\ out[Len(out)] = PlotWarning(Sections[sec])
    /\ \A i \in DOMAIN Sections :
         Count(out, PlotWarning(Sections[i])) >= 1 =>
           /\ i <= sec
           /\ \A j \in (i + 1)..Len(Sections) :
                (j < sec \/ (j = sec /\ pc # "loop") \/ pc = "done")
                   => Requested(FUNCTIONS(Sections[j]))
           /\ pc = "done" => Len(fetched) = Len(Sections) + 1

C6_Witness ==
    /\ pc = "done"
    /\ Count(out, PlotWarning("Balance Sheet")) = 1
    /\ Count(out, Table("Income Statement")) = 1

(* The response is a JSON object holding no report.                        *)
ZeroReports(r) == r.kind = "http" /\ r.body = "object" /\ (~r.has \/ Len(r.reports) = 0)

(* C7: a statement response with zero reports (annualReports missing or    *)
(* empty) gives an empty table, exactly one "No data returned" warning for *)
(* the section, no table and no chart, and the loop goes on.               *)
C7_ZeroReportsWarnOnce ==
    AfterSection /\ ZeroReports(resp) =>
        /\ Len(df.rows) = 0 /\ Len(df.cols) = 0
        /\ pc = "rendered"
        /\ Count(out, NoDataWarning(Sections[sec])) = 1
        /\ out[Len(out)] = NoDataWarning(Sections[sec])
        /\ Count(out, Table(Sections[sec])) = 0
        /\ Count(out, Chart(Sections[sec])) = 0
        /\ Count(out, PlotWarning(Sections[sec])) = 0

C7_Witness ==
    /\ pc = "done"
    /\ Count(out, NoDataWarning("Cash Flow")) = 1
    /\ Count(out, Table("Income Statement")) = 1

(* The key of column j is missing from raw report i.                       *)
KeyMissing(i, j) == df.cols[j] \notin DOMAIN resp.reports[i]

C9_ProjectionOntoWhitelist ==
    AfterSection /\ resp.kind = "http" /\ resp.body = "object" /\ resp.has
                 /\ Len(resp.reports) > 0 =>
        LET keys == KEY_FIELDS(FUNCTIONS(Sections[sec])) IN
        /\ Len(df.rows) = Len(resp.reports)
        /\ df.cols = keys
        /\ \A i \in DOMAIN df.rows :
             /\ Len(df.rows[i]) = Len(keys)
             /\ \A j \in DOMAIN keys :
                  IF keys[j] \in DOMAIN resp.reports[i]
                  THEN df.rows[i][j] = resp.reports[i][keys[j]]
                  ELSE df.rows[i][j] \in {Null, NaN}

C9_Witness ==
    /\ AfterSection /\ Len(df.rows) = MaxReports
    /\ "reportedCurrency" \in DOMAIN resp.reports[1]
    /\ "reportedCurrency" \notin Range(df.cols)
    /\ \E j \in DOMAIN df.cols : KeyMissing(1, j) /\ df.rows[1][j] = Null
    /\ resp.reports[1]["fiscalDateEnding"] # resp.reports[MaxReports]["fiscalDateEnding"]
    /\ df.rows[1][1] = Str("2023-12-31")

(* C10: prettify_columns renames the columns one to one: as many columns   *)
(* as before, no two with the same name, a key of PRETTY_LABELS under its  *)
(* label ("fiscalDateEnding" as "Fiscal Date", "ebitda" as "EBITDA"), any  *)
(* other key under its provider name ("depreciationAndAmortization").      *)
C10_RelabelIsOneToOne ==
    TableRendered =>
        /\ Len(shown.cols) = Len(df.cols)
        /\ \A a, b \in DOMAIN shown.cols : a # b => shown.cols[a] # shown.cols[b]
        /\ \A j \in DOMAIN df.cols :
             /\ df.cols[j] \in DOMAIN PRETTY_LABELS => shown.cols[j] = PRETTY_LABELS[df.cols[j]]
             /\ df.cols[j] \notin DOMAIN PRETTY_LABELS => shown.cols[j] = df.cols[j]
             /\ df.cols[j] = "fiscalDateEnding" => shown.cols[j] = "Fiscal Date"
             /\ df.cols[j] = "ebitda" => shown.cols[j] = "EBITDA"
             /\ df.cols[j] = "netIncome" => shown.cols[j] = "Net Income"
             /\ df.cols[j] = "depreciationAndAmortization"
                  => shown.cols[j] = "depreciationAndAmortization"

C10_Witness ==
    /\ TableRendered /\ sec = Len(Sections)
    /\ "depreciationAndAmortization" \in Range(shown.cols)
    /\ "EBITDA" \in Range(shown.cols)

(* The unit and suffix that the magnitude m selects.                       *)
UnitOf(m) ==
    IF m >= Billion THEN Billion ELSE IF m >= Million THEN Million
    ELSE IF m >= Thousand THEN Thousand ELSE 1

SuffixOf(unit) ==
    CASE unit = Billion -> "B" [] unit = Million -> "M"
      [] unit = Thousand -> "K" [] OTHER -> ""

(* The cell shows v / unit to two decimals, with the suffix of the unit.   *)
ShowsScaled(cell, v, unit) ==
    /\ cell.t = "fmt" /\ cell.s = SuffixOf(unit)
    /\ IF unit = 1 THEN cell.n = v * 100
       ELSE 2 * Abs(cell.n * (unit \div 100) - v) <= unit \div 100

NumericCell(cell) == cell.t \in {"numstr", "num"}

(* C5 as stated: the suffix follows the ranges of v itself (v >= 1e9 B,    *)
(* [1e6, 1e9) M, [1e3, 1e6) K, every v below 1e3 unscaled).                *)
C5_SuffixByValue ==
    pc = "normalized" =>
        \A i \in DOMAIN df.rows : \A j \in DOMAIN df.cols :
            NumericCell(df.rows[i][j]) =>
                ShowsScaled(shown.rows[i][j], df.rows[i][j].n, UnitOf(df.rows[i][j].n))

(* C5 amended: the suffix follows the ranges of the magnitude abs(v), and  *)
(* the number shown is v divided by the matching power of 1000, to two     *)
(* decimals.                                                               *)
C5_SuffixByMagnitude ==
    pc = "normalized" =>
        \A i \in DOMAIN df.rows : \A j \in DOMAIN df.cols :
            NumericCell(df.rows[i][j]) =>
                ShowsScaled(shown.rows[i][j], df.rows[i][j].n, UnitOf(Abs(df.rows[i][j].n)))

C5_Witness ==
    /\ pc = "normalized"
    /\ \E i \in DOMAIN df.rows :
         df.rows[i][2] = NumStr(-2000000000) /\ shown.rows[i][2] = Fmt(-200, "B")
    /\ \E i \in DOMAIN df.rows :
         df.rows[i][2] = NumStr(999999) /\ shown.rows[i][2] = Fmt(100000, "K")

====
